---- MODULE Spec2Model ----
(***************************************************************************)
(* A model of gc_ca_wather_scraper.py: the station resolver, the scraping  *)
(* loop of get_climate_data_map with its record reconciler, and the        *)
(* insert-or-update persistence of insert_climate_data_into_database.      *)
(*                                                                         *)
(* A Python str is a sequence of symbols; a symbol is one character, or a  *)
(* fixed chunk of text holding no digit, no quote and no non-ASCII         *)
(* character (a chunk of the URL template, a word of a caption).           *)
(* A Python value is a tagged record:                                      *)
(*   [t |-> "int", v |-> n], [t |-> "str", v |-> <<symbols>>],             *)
(*   [t |-> "float", v |-> <<m, d>>]  standing for m / 10^d.               *)
(***************************************************************************)
EXTENDS Integers, Sequences, FiniteSets, TLC

\* ------------------------------------------------------------------ text

Digits == {"0", "1", "2", "3", "4", "5", "6", "7", "8", "9"}

DigitChars == <<"0", "1", "2", "3", "4", "5", "6", "7", "8", "9">>

\* The symbols that stand for characters of code point >= 128.
NonASCII == {"NBSP", "DAGGER"}

Whitespace == {" "}

IsDigit(c) == c \in Digits

DigitVal(c) == CHOOSE n \in 0..9 : DigitChars[n + 1] = c

IntV(n) == [t |-> "int", v |-> n]

StrV(s) == [t |-> "str", v |-> s]

FloatV(m, d) == [t |-> "float", v |-> <<m, d>>]

RECURSIVE NatStr(_)
\* str(n) for n >= 0
NatStr(n) ==
    IF n < 10 THEN <<DigitChars[n + 1]>>
    ELSE NatStr(n \div 10) \o <<DigitChars[(n % 10) + 1]>>

\* str(n) of an int
IntStr(n) == IF n < 0 THEN <<"-">> \o NatStr(-n) ELSE NatStr(n)

RECURSIVE DigitsVal(_)
\* the number a run of decimal digits writes
DigitsVal(s) ==
    IF s = <<>> THEN 0
    ELSE 10 * DigitsVal(SubSeq(s, 1, Len(s) - 1)) + DigitVal(s[Len(s)])

RECURSIVE Pow10(_)
Pow10(k) == IF k = 0 THEN 1 ELSE 10 * Pow10(k - 1)

RECURSIVE LStrip(_)
LStrip(s) == IF s # <<>> /\ s[1] \in Whitespace THEN LStrip(Tail(s)) ELSE s

RECURSIVE RStrip(_)
RStrip(s) ==
    IF s # <<>> /\ s[Len(s)] \in Whitespace
    THEN RStrip(SubSeq(s, 1, Len(s) - 1)) ELSE s

\* str.strip()
Strip(s) == RStrip(LStrip(s))

\* the length of the run of digits s starts with
RECURSIVE DigitRun(_)
DigitRun(s) == IF s # <<>> /\ IsDigit(s[1]) THEN 1 + DigitRun(Tail(s)) ELSE 0

Drop(s, n) == SubSeq(s, n + 1, Len(s))

Take(s, n) == SubSeq(s, 1, n)

AllDigits(s) == s # <<>> /\ \A i \in 1..Len(s) : IsDigit(s[i])

\* sub in s, for two str
Contains(s, sub) ==
    \E i \in 0..(Len(s) - Len(sub)) : SubSeq(s, i + 1, i + Len(sub)) = sub

Unsigned(s) == IF s # <<>> /\ s[1] \in {"+", "-"} THEN Tail(s) ELSE s

IsNegative(s) == s # <<>> /\ s[1] = "-"

\* ------------------------------------------------------- value coercion

\* Replace all of the non-ASCII characters of a str; other values pass.
replace_all_non_ASCII(value) ==
    IF value.t = "str"
    THEN StrV(SelectSeq(value.v, LAMBDA c : c \notin NonASCII))
    ELSE value

\* int(text) succeeds: optional blanks, an optional sign, decimal digits.
IntSyntax(s) == AllDigits(Unsigned(Strip(s)))

IntOfText(s) ==
    LET u == Strip(s)
        n == DigitsVal(Unsigned(u))
    IN  IF IsNegative(u) THEN -n ELSE n

\* float(text) succeeds: optional blanks, an optional sign, digits with an
\* optional point, or a point followed by digits.
FloatSyntax(s) ==
    LET u == Unsigned(Strip(s))
        a == DigitRun(u)
        rest == Drop(u, a)
    IN  \/ (a > 0 /\ rest = <<>>)
        \/ /\ rest # <<>>
           /\ rest[1] = "."
           /\ Tail(rest) = <<>> \/ AllDigits(Tail(rest))
           /\ a + Len(Tail(rest)) > 0

RECURSIVE Normalize(_, _)
\* m / 10^d with no trailing zero decimal
Normalize(m, d) ==
    IF d > 0 /\ m % 10 = 0 THEN Normalize(m \div 10, d - 1) ELSE <<m, d>>

FloatOfText(s) ==
    LET u == Strip(s)
        w == Unsigned(u)
        a == DigitRun(w)
        frac == IF Len(w) > a THEN Drop(w, a + 1) ELSE <<>>
        m == DigitsVal(Take(w, a)) * Pow10(Len(frac)) + DigitsVal(frac)
        nd == Normalize(m, Len(frac))
    IN  FloatV(IF IsNegative(u) THEN -nd[1] ELSE nd[1], nd[2])

\* int(x) of the float x = m / 10^d: x without its decimals
Truncate(m, d) ==
    IF m < 0 THEN -((-m) \div Pow10(d)) ELSE m \div Pow10(d)

is_integer(value) ==
    CASE value.t = "int" -> TRUE
      [] value.t = "float" -> TRUE
      [] OTHER -> IntSyntax(value.v)

is_float(value) ==
    CASE value.t = "str" -> FloatSyntax(value.v)
      [] OTHER -> TRUE

\* The length of what ([+-]?(\d*\.)?\d+) matches at the start of s, 0 for
\* no match.
NumericPrefixLen(s) ==
    LET sg == IF s # <<>> /\ s[1] \in {"+", "-"} THEN 1 ELSE 0
        u == Drop(s, sg)
        a == DigitRun(u)
        afterPoint == IF Len(u) > a /\ u[a + 1] = "."
                      THEN DigitRun(Drop(u, a + 1)) ELSE 0
    IN  IF afterPoint > 0 THEN sg + a + 1 + afterPoint
        ELSE IF a > 0 THEN sg + a
        ELSE 0

Legend == <<"L", "e", "g", "e", "n", "d">>

\* re.match(r"([+-]?(\d*\.)?\d+)(.*?)Legend(.*?)", value)
LegendMatch(s) ==
    /\ NumericPrefixLen(s) > 0
    /\ Contains(Drop(s, NumericPrefixLen(s)), Legend)

\* A variant that tries the float before the integer.
try_float_before_integer(value0) ==
    LET value == replace_all_non_ASCII(value0)
    IN  IF value.t # "str" THEN value
        ELSE IF is_float(value) THEN FloatOfText(value.v)
        ELSE IF LegendMatch(value.v)
             THEN StrV(Take(value.v, NumericPrefixLen(value.v)))
        ELSE value

\* Attempt to cast the passed in value into a numeric format.
try_to_convert_to_numeric(value0) ==
    LET value == replace_all_non_ASCII(value0)
    IN  IF is_integer(value)
        THEN (CASE value.t = "str" -> IntV(IntOfText(value.v))
                [] value.t = "float" -> IntV(Truncate(value.v[1], value.v[2]))
                [] OTHER -> value)
        ELSE IF is_float(value) THEN FloatOfText(value.v)
        ELSE IF LegendMatch(value.v)
             THEN StrV(Take(value.v, NumericPrefixLen(value.v)))
        ELSE value

convert_list_items_to_numeric(list) ==
    [i \in 1..Len(list) |-> try_to_convert_to_numeric(list[i])]

is_a_number(value) == value.t \in {"int", "float"}

is_non_zero_numeric_value(value) ==
    /\ is_a_number(value)
    /\ IF value.t = "int" THEN value.v # 0 ELSE value.v[1] # 0

\* str(value) of a float m / 10^d: the integer part, a point, d decimals
\* (one zero decimal when there is none)
FloatStr(m, d) ==
    LET a == IF m < 0 THEN -m ELSE m
        ip == NatStr(a \div Pow10(d))
        fr == NatStr(a % Pow10(d))
        pad == [i \in 1..(d - Len(fr)) |-> "0"]
    IN  (IF m < 0 THEN <<"-">> ELSE <<>>) \o ip \o <<".">>
        \o (IF d = 0 THEN <<"0">> ELSE pad \o fr)

\* str(value)
PyStr(value) ==
    CASE value.t = "int" -> IntStr(value.v)
      [] value.t = "float" -> FloatStr(value.v[1], value.v[2])
      [] OTHER -> value.v

\* A variant that counts every number and every digit, the zeros too.
counts_zero_digits(value) ==
    \/ is_a_number(value)
    \/ \E i \in 1..Len(PyStr(value)) : IsDigit(PyStr(value)[i])

has_non_zero_digits(value) ==
    \/ is_non_zero_numeric_value(value)
    \/ \E i \in 1..Len(PyStr(value)) :
          IsDigit(PyStr(value)[i]) /\ PyStr(value)[i] # "0"

\* ------------------------------------------------------ station resolver

LowerLetters == <<"a", "b", "c", "d", "e", "f", "g", "h", "i", "j", "k", "l", "m", "n", "o", "p", "q", "r", "s", "t", "u", "v", "w", "x", "y", "z">>

UpperLetters == <<"A", "B", "C", "D", "E", "F", "G", "H", "I", "J", "K", "L", "M", "N", "O", "P", "Q", "R", "S", "T", "U", "V", "W", "X", "Y", "Z">>

UpperChar(c) ==
    IF \E i \in 1..26 : LowerLetters[i] = c
    THEN UpperLetters[CHOOSE i \in 1..26 : LowerLetters[i] = c]
    ELSE c

\* str.upper()
Upper(s) == [i \in 1..Len(s) |-> UpperChar(s[i])]

\* A province name to province code mapping
InProvinceMap(p) ==
    p \in { <<"A", "L", "B", "E", "R", "T", "A">>,
            <<"B", "R", "I", "T", "I", "S", "H", " ", "C", "O", "L", "U", "M", "B", "I", "A">>,
            <<"M", "A", "N", "I", "T", "O", "B", "A">>,
            <<"N", "E", "W", " ", "B", "R", "U", "N", "S", "W", "I", "C", "K">>,
            <<"N", "E", "W", "F", "O", "U", "N", "D", "L", "A", "N", "D", " ", "A", "N", "D", " ", "L", "A", "B", "R", "A", "D", "O", "R">>,
            <<"N", "O", "R", "T", "H", "W", "E", "S", "T", " ", "T", "E", "R", "R", "I", "T", "O", "R", "I", "E", "S">>,
            <<"N", "O", "V", "A", " ", "S", "C", "O", "T", "I", "A">>,
            <<"N", "U", "N", "A", "V", "U", "T">>,
            <<"O", "N", "T", "A", "R", "I", "O">>,
            <<"P", "R", "I", "N", "C", "E", " ", "E", "D", "W", "A", "R", "D", " ", "I", "S", "L", "A", "N", "D">>,
            <<"Q", "U", "E", "B", "E", "C">>,
            <<"S", "A", "S", "K", "A", "T", "C", "H", "E", "W", "A", "N">>,
            <<"Y", "U", "K", "O", "N">> }

province_map(p) ==
    CASE p = <<"A", "L", "B", "E", "R", "T", "A">>
        -> <<"A", "B">>
      [] p = <<"B", "R", "I", "T", "I", "S", "H", " ", "C", "O", "L", "U", "M", "B", "I", "A">>
        -> <<"B", "C">>
      [] p = <<"M", "A", "N", "I", "T", "O", "B", "A">>
        -> <<"M", "B">>
      [] p = <<"N", "E", "W", " ", "B", "R", "U", "N", "S", "W", "I", "C", "K">>
        -> <<"N", "B">>
      [] p = <<"N", "E", "W", "F", "O", "U", "N", "D", "L", "A", "N", "D", " ", "A", "N", "D", " ", "L", "A", "B", "R", "A", "D", "O", "R">>
        -> <<"N", "L">>
      [] p = <<"N", "O", "R", "T", "H", "W", "E", "S", "T", " ", "T", "E", "R", "R", "I", "T", "O", "R", "I", "E", "S">>
        -> <<"N", "T">>
      [] p = <<"N", "O", "V", "A", " ", "S", "C", "O", "T", "I", "A">>
        -> <<"N", "S">>
      [] p = <<"N", "U", "N", "A", "V", "U", "T">>
        -> <<"N", "T">>
      [] p = <<"O", "N", "T", "A", "R", "I", "O">>
        -> <<"O", "N">>
      [] p = <<"P", "R", "I", "N", "C", "E", " ", "E", "D", "W", "A", "R", "D", " ", "I", "S", "L", "A", "N", "D">>
        -> <<"P", "E">>
      [] p = <<"Q", "U", "E", "B", "E", "C">>
        -> <<"Q", "C">>
      [] p = <<"S", "A", "S", "K", "A", "T", "C", "H", "E", "W", "A", "N">>
        -> <<"S", "K">>
      [] p = <<"Y", "U", "K", "O", "N">>
        -> <<"Y", "T">>

\* A variant of the query that keeps a name only when it is the city or
\* starts with the city and a space.
StationMatchesAtStart(row, city, province) ==
    /\ \/ /\ Len(row.Name) > Len(city)
          /\ Take(row.Name, Len(city) + 1) = Upper(city) \o <<" ">>
       \/ row.Name = Upper(city)
    /\ province # <<>> => row.Province = Upper(province)

\* The pandas query of get_station_data on one inventory row:
\* (Name.str.contains("CITY ") or Name == "CITY") [and (Province == "PROV")]
StationMatches(row, city, province) ==
    /\ \/ Contains(row.Name, Upper(city) \o <<" ">>)
       \/ row.Name = Upper(city)
    /\ province # <<>> => row.Province = Upper(province)

\* The rows of the inventory `data` the query keeps, in inventory order.
get_station_data(city, province, data) ==
    SelectSeq(data, LAMBDA row : StationMatches(row, city, province))

\* ------------------------------------------------------------ url builder

get_gc_ca_daily_data_url(station_id, prov, month, year) ==
    <<"http://climate.weather.gc.ca/climate_data/daily_data_e.html?&StationID=">>
    \o NatStr(station_id) \o <<"&Prov=">> \o prov
    \o <<"&Month=">> \o NatStr(month) \o <<"&Year=">> \o NatStr(year)

\* -------------------------------------------------------- table extractor

\* calendar.month_name
month_name_map ==
    <<"January", "February", "March", "April", "May", "June", "July",
      "August", "September", "October", "November", "December">>

\* "Daily Data Report for " + month_name_map[month] + " " + str(year)
caption_text(month, year) ==
    <<"Daily Data Report for ", month_name_map[month], " ">> \o NatStr(year)

LowerSym(c) ==
    CASE c = "Max" -> "max"
      [] c = "Min" -> "min"
      [] c = "Temp" -> "temp"
      [] c = "Day" -> "day"
      [] c = "Spd" -> "spd"
      [] c = "Gust" -> "gust"
      [] \E i \in 1..26 : UpperLetters[i] = c
           -> LowerLetters[CHOOSE i \in 1..26 : UpperLetters[i] = c]
      [] OTHER -> c

\* column_header_text.strip().replace(' ', '_').lower()
NormalizeHeader(text) ==
    LET t == Strip(text)
    IN  [i \in 1..Len(t) |-> IF t[i] = " " THEN "_" ELSE LowerSym(t[i])]

\* The header text of one link of the table head: the text of its first
\* abbr element when it has one, else the text of the link.
LinkText(link) == IF link.has_abbr THEN link.abbr ELSE link.text

RECURSIVE HeaderNames(_)
HeaderNames(links) ==
    IF links = <<>> THEN <<>>
    ELSE (IF LinkText(links[1]) # <<>>
          THEN <<NormalizeHeader(LinkText(links[1]))>> ELSE <<>>)
         \o HeaderNames(Tail(links))

\* The column header list of a matched table.
column_header_list(table) ==
    << <<"city">>, <<"province">>, <<"station_id">>, <<"station_name">>,
       <<"year">>, <<"month">>, <<"day">> >>
    \o HeaderNames(table.thead)
    \o << <<"monthly_data_url">> >>

WordSymbols ==
    {"city", "province", "station_id", "station_name", "year", "month",
     "day", "monthly_data_url", "max", "min", "temp", "spd", "of", "gust"}

\* A field name namedtuple() accepts.
IsIdentifier(name) ==
    /\ name # <<>>
    /\ \A i \in 1..Len(name) : name[i] \in WordSymbols \cup {"_"} \cup Digits
    /\ name[1] \notin {"_"} \cup Digits

\* namedtuple('ClimateData', names) raises ValueError
NamedTupleRaises(names) ==
    \/ \E i \in 1..Len(names) : ~IsIdentifier(names[i])
    \/ \E i, j \in 1..Len(names) : i # j /\ names[i] = names[j]

\* table.find_all('tr')[2:] without the rows that have a th child
data_rows(table) ==
    SelectSeq(Drop(table.rows, 2), LAMBDA table_row : ~table_row.th)

\* A variant that takes the table of every daily report caption, of
\* whatever month.
MatchedTablesOfAnyMonth(doc, month, year) ==
    SelectSeq(doc, LAMBDA table : Contains(table.caption, <<"Daily Data Report for ">>))

\* The tables of the captions of a document whose text contains the
\* caption text, in document order.
MatchedTables(doc, month, year) ==
    SelectSeq(doc, LAMBDA table : Contains(table.caption, caption_text(month, year)))

RECURSIVE FirstDigitRun(_)
\* re.findall(r'\d+', text)[0], or the empty str when nothing is found
FirstDigitRun(text) ==
    IF text = <<>> THEN <<>>
    ELSE IF IsDigit(text[1]) THEN Take(text, DigitRun(text))
    ELSE FirstDigitRun(Tail(text))

\* ClimateData._make(row_data)
ClimateData(columns, row_data) == [fields |-> columns, values |-> row_data]

\* The row data list of lines 326-362 for a data row.
RowData(cells, year, month, url, lead) ==
    lead
    \o convert_list_items_to_numeric(
         <<IntV(year), IntV(month)>> \o [i \in 1..Len(cells) |-> StrV(cells[i])])
    \o <<StrV(url)>>

\* The richness of a record or row data list: the number of its items
\* for which has_non_zero_digits is true.
RECURSIVE Richness(_)
Richness(items) ==
    IF items = <<>> THEN 0
    ELSE (IF has_non_zero_digits(items[1]) THEN 1 ELSE 0) + Richness(Tail(items))

\* A variant of the comparison that lets the poorer row in.
ReplacesCurrentWhenPoorer(row_data, current_climate_data) ==
    Richness(row_data) < Richness(current_climate_data.values)

\* A variant of the comparison that lets a row as rich in.
ReplacesCurrentWhenAsRich(row_data, current_climate_data) ==
    Richness(row_data) >= Richness(current_climate_data.values)

\* len(new_numeric_data) > len(current_climate_numeric_data)
ReplacesCurrent(row_data, current_climate_data) ==
    Richness(row_data) > Richness(current_climate_data.values)


\* ---------------------------------------------------- the model's inputs

\* The first year of the ranges the model runs (the start year of the
\* script's own call) and the number of years they span.
FirstYear == 2018

NumYears == 3

\* The most data rows of a table of a page the site may serve.
MaxRows == 2

ONTARIO == <<"O", "N", "T", "A", "R", "I", "O">>

QUEBEC == <<"Q", "U", "E", "B", "E", "C">>

\* The station inventory, as read from the ftp file: names and provinces
\* are upper case there. The province of the last row is spelt as no key
\* of province_map.
Inventory ==
    << [Name |-> <<"A", "Y", "R">>, StationID |-> 10, Province |-> ONTARIO],
       [Name |-> <<"A", "Y", "R", " ", "C", "S">>, StationID |-> 11, Province |-> ONTARIO],
       [Name |-> <<"B", "A", "Y">>, StationID |-> 12, Province |-> QUEBEC],
       [Name |-> <<"R", "A", "E">>, StationID |-> 13,
        Province |-> <<"N", "E", "W", "F", "O", "U", "N", "D", "L", "A", "N", "D">>] >>

\* The (city, province) arguments of the runs.
CityArgs ==
    { << <<"A", "y", "r">>, <<>> >>,
      << <<"A", "y", "r">>, <<"Q", "u", "e", "b", "e", "c">> >>,
      << <<"b", "a", "y">>, <<"q", "u", "e", "b", "e", "c">> >>,
      << <<"R", "a", "e">>, <<>> >>,
      << <<"Z", "e", "d">>, <<>> >> }

\* cell texts
Day01 == <<"0", "1">>

Day02 == <<"0", "2">>

Day01Dagger == <<"0", "1", "DAGGER">>

Day01Legend == <<"0", "1", "L", "e", "g", "e", "n", "d", "DAGGER">>

NoDay == <<"S", "u", "m">>

ZeroCell == <<"0", ".", "0">>

ValueCell == <<"2", ".", "5">>

LegendCell == <<"2", ".", "5", "L", "e", "g", "e", "n", "d", "E">>

MissingCell == <<"L", "e", "g", "e", "n", "d", "M", "M">>

Tr(cells) == [th |-> FALSE, td |-> cells]

Th(cells) == [th |-> TRUE, td |-> cells]

\* The data rows the tables of the rich site are made of.
CoreRows ==
    { Tr(<<Day01, ZeroCell>>), Tr(<<Day01Dagger, ValueCell>>),
      Tr(<<Day02, MissingCell>>), Tr(<<NoDay, ValueCell>>),
      Tr(<<Day01Legend, LegendCell>>) }

\* Rows of another shape: a summary row, a row with no cell, a row with a
\* cell too few and one with a cell too many.
OddRows ==
    { Th(<<Day01, ValueCell>>), Tr(<<>>), Tr(<<Day01>>),
      Tr(<<Day02, ValueCell, ValueCell>>) }

RowSeqs(S, n) == UNION { [1..k -> S] : k \in 0..n }

\* The two header rows a report table starts with.
HeadRows == << Th(<<>>), Th(<<>>) >>

MaxTempLink ==
    [has_abbr |-> TRUE, abbr |-> <<"Max", " ", "Temp">>,
     text |-> <<"Max", " ", "Temp", "DEGREE", "C">>]

PlainLink == [has_abbr |-> FALSE, abbr |-> <<>>, text |-> <<" ", "Max", " ", "Temp", " ">>]

EmptyLink == [has_abbr |-> FALSE, abbr |-> <<>>, text |-> <<>>]

Table(caption, thead, rows) == [caption |-> caption, thead |-> thead, rows |-> rows]

\* A report table of the month, with the usual head.
Report(month, year, rows) ==
    Table(caption_text(month, year), <<MaxTempLink>>, HeadRows \o rows)

OtherMonth(month) == IF month = 12 THEN 1 ELSE month + 1

\* The pages the rich site may answer a request for (month, year) with.
Documents(month, year) ==
    \* one report table of the month
    { <<Report(month, year, rows)>> : rows \in RowSeqs(CoreRows, MaxRows) }
    \cup { <<Report(month, year, <<odd, Tr(<<Day02, ValueCell>>)>>)>> : odd \in OddRows }
    \* its first two rows dropped, whatever they are
    \cup { <<Table(caption_text(month, year), <<MaxTempLink>>,
                   <<Tr(<<Day01, ValueCell>>), Tr(<<Day02, ValueCell>>),
                     Tr(<<Day01, ZeroCell>>)>>)>> }
    \* no caption of the month: no caption at all, another month's report,
    \* another table
    \cup { <<>>,
           <<Report(OtherMonth(month), year, <<Tr(<<Day01, ValueCell>>)>>)>>,
           <<Table(<<"Monthly Data Report">>, <<MaxTempLink>>,
                   HeadRows \o <<Tr(<<Day01, ValueCell>>)>>)>> }
    \* two captions of the month
    \cup { <<Table(<<"Table: ">> \o caption_text(month, year), <<MaxTempLink>>,
                   HeadRows \o <<a>>),
             Report(month, year, <<b>>)>> :
           a, b \in {Tr(<<Day01, ZeroCell>>), Tr(<<Day01, ValueCell>>)} }
    \* other table heads: a link with no abbr, a link with no text, the
    \* same header twice
    \cup { <<Table(caption_text(month, year), thead,
                   HeadRows \o <<Tr(<<Day01, ValueCell>>)>>)>> :
           thead \in { <<PlainLink>>, <<MaxTempLink, EmptyLink>>,
                       <<MaxTempLink, MaxTempLink>> } }

\* What the site serves: "any" page of Documents, a "blank" page for every
\* request, or the same "plain" one-row report for every request.
Pages(s, month, year) ==
    CASE s = "any" -> Documents(month, year)
      [] s = "blank" -> { <<>> }
      [] OTHER -> { <<Report(month, year, <<Tr(<<Day01, ValueCell>>)>>)>> }

ModelYears == FirstYear..(FirstYear + NumYears - 1)

Arguments(city, province, sy, sm, ey, em, all) ==
    [city |-> city, province |-> province, start_year |-> sy, start_month |-> sm,
     end_year |-> ey, end_month |-> em, fetch_all_station_data |-> all]

\* ------------------------------------------------- get_climate_data_map

VARIABLES
    args,               \* the arguments of the call
    inventory,          \* the station inventory the ftp file holds
    site,               \* what the site serves
    pc,                 \* "start", "fetch", "table", "rows", "done", "raised",
                        \* and "persist", "persisted" for the database loop
    error,              \* the exception that ended the call, or "none"
    station_data,       \* the rows get_station_data returned
    year, month, index, \* the loops' variables; index is the station's row
    daily_data_url,     \* the URL of the current fetch
    page,               \* the document the current fetch returned
    tables,             \* the matched tables of the page not yet entered
    columns,            \* column_header_list of the current table
    rows,               \* the data rows of the current table not yet processed
    climate_data_map,   \* the accumulating map
    fetches,            \* history: the requests issued, in order
    extracted,          \* history: the row data lists extracted, in order
    pending,            \* the records of the map not yet persisted, in order
    sink,               \* the rows of the database table, by primary key
    persisted,          \* history: the records persisted, in order
    argument,           \* the argument of a call of a coercion helper
    returned            \* what the call returned

vars ==
    <<args, inventory, site, pc, error, station_data, year, month, index, daily_data_url,
      page, tables, columns, rows, climate_data_map, fetches, extracted,
      pending, sink, persisted, argument, returned>>

\* The variables of insert_climate_data_into_database.
dbvars == <<pending, sink, persisted>>

\* The variables of a call of a coercion helper on its own.
helpervars == <<argument, returned>>

\* No call of a helper on its own is under way.
NoValue == [t |-> "none", v |-> 0]

\* range(a, b)
PyRange(a, b) == a..(b - 1)

\* The months the inner loop runs for a year.
MonthRange(a, y) ==
    PyRange(IF y = a.start_year THEN a.start_month ELSE 1,
            IF y = a.end_year THEN a.end_month + 1 ELSE 13)

Min(S) == CHOOSE x \in S : \A y \in S : x <= y

NoPosition == [year |-> 0, month |-> 0, index |-> 0]

RECURSIVE FirstPosition(_, _, _)
\* The first iteration of the loops over n stations from year y on;
\* NoPosition when the loops are exhausted.
FirstPosition(a, n, y) ==
    IF n = 0 \/ y \notin PyRange(a.start_year, a.end_year + 1) THEN NoPosition
    ELSE IF MonthRange(a, y) # {}
         THEN [year |-> y, month |-> Min(MonthRange(a, y)), index |-> 1]
    ELSE FirstPosition(a, n, y + 1)

\* The iteration after (y, m, i) of the three nested loops.
NextPosition(a, n, y, m, i) ==
    IF i < n THEN [year |-> y, month |-> m, index |-> i + 1]
    ELSE IF m + 1 \in MonthRange(a, y) THEN [year |-> y, month |-> m + 1, index |-> 1]
    ELSE FirstPosition(a, n, y + 1)

\* Control moves to the iteration pos, or to the return statement.
Goto(pos) ==
    /\ year' = pos.year
    /\ month' = pos.month
    /\ index' = pos.index
    /\ pc' = IF pos = NoPosition THEN "done" ELSE "fetch"

\* Control leaves a table: to the next matched table of the page, or to the
\* next iteration of the loops.
Leave(tbls) ==
    IF tbls # <<>>
    THEN pc' = "table" /\ UNCHANGED <<year, month, index>>
    ELSE Goto(NextPosition(args, Len(station_data), year, month, index))

Raise(e) == pc' = "raised" /\ error' = e

\* The state of a call before its first statement.
InitCall ==
    /\ pc = "start"
    /\ error = "none"
    /\ station_data = <<>>
    /\ year = 0 /\ month = 0 /\ index = 0
    /\ daily_data_url = <<>>
    /\ page = <<>>
    /\ tables = <<>>
    /\ columns = <<>>
    /\ rows = <<>>
    /\ climate_data_map = <<>>
    /\ fetches = <<>>
    /\ extracted = <<>>
    /\ pending = <<>>
    /\ sink = <<>>
    /\ persisted = <<>>
    /\ argument = NoValue
    /\ returned = NoValue

\* The runs: a call for one month (or none) against the site that may
\* serve any page, and a call for any range of months against a site that
\* serves the same page everywhere.
Init ==
    /\ inventory = Inventory
    /\ \/ /\ site = "any"
          /\ \E ca \in CityArgs, all \in BOOLEAN, sm \in {1, 2} :
                args = Arguments(ca[1], ca[2], FirstYear, sm, FirstYear, 1, all)
       \/ /\ site \in {"blank", "plain"}
          /\ \E sy, ey \in ModelYears, sm, em \in 1..12, all \in BOOLEAN :
                args = Arguments(<<"A", "y", "r">>, <<>>, sy, sm, ey, em, all)
    /\ InitCall

\* A variant of the test that never finds the list empty.
NoLocationFoundNever(city_data) == FALSE

\* Lines 161-163: no location data is found.
NoLocationFound(city_data) == Len(city_data) <= 0

\* Lines 199-206: resolve the stations, initialise the map, enter the loops.
ResolveStations ==
    /\ pc = "start"
    /\ LET found == get_station_data(args.city, args.province, inventory)
       IN  IF NoLocationFound(found)
           THEN /\ Raise("NoLocationFoundError")
                /\ UNCHANGED <<station_data, year, month, index>>
           ELSE /\ station_data' = found
                /\ Goto(FirstPosition(args, Len(found), args.start_year))
                /\ error' = error
    /\ climate_data_map' = <<>>
    /\ UNCHANGED <<args, inventory, site, daily_data_url, page, tables, columns, rows, fetches,
                   extracted, dbvars, helpervars>>

\* The URL of lines 215-220 for the current iteration.
CurrentUrl ==
    get_gc_ca_daily_data_url(station_data[index].StationID,
                             province_map(station_data[index].Province), month, year)

\* Line 218: the province of the station is no key of province_map.
UrlRaises ==
    /\ pc = "fetch"
    /\ ~InProvinceMap(station_data[index].Province)
    /\ Raise("KeyError")
    /\ UNCHANGED <<args, inventory, site, station_data, year, month, index, daily_data_url,
                   page, tables, columns, rows, climate_data_map, fetches, extracted,
                   dbvars, helpervars>>

Request == [station |-> station_data[index].StationID, year |-> year, month |-> month]

\* Line 223: requests.get raises (no connection, a timeout).
FetchRaises ==
    /\ pc = "fetch"
    /\ InProvinceMap(station_data[index].Province)
    /\ daily_data_url' = CurrentUrl
    /\ fetches' = Append(fetches, Request)
    /\ Raise("ConnectionError")
    /\ UNCHANGED <<args, inventory, site, station_data, year, month, index, page,
                   tables, columns, rows, climate_data_map, extracted, dbvars, helpervars>>

\* Lines 215-246: fetch the page of the station and month and find the
\* captions of the month in it.
Fetch ==
    /\ pc = "fetch"
    /\ InProvinceMap(station_data[index].Province)
    /\ daily_data_url' = CurrentUrl
    /\ fetches' = Append(fetches, Request)
    /\ \E doc \in Pages(site, month, year) :
          /\ page' = doc
          /\ tables' = MatchedTables(doc, month, year)
          /\ Leave(tables')
    /\ UNCHANGED <<args, inventory, site, error, station_data, columns, rows,
                   climate_data_map, extracted, dbvars, helpervars>>

\* Lines 250-309: enter the table of a matched caption.
EnterTable ==
    /\ pc = "table"
    /\ LET table == Head(tables)
           names == column_header_list(table)
       IN  IF NamedTupleRaises(names)
           THEN /\ Raise("ValueError")
                /\ UNCHANGED <<year, month, index, tables, columns, rows>>
           ELSE /\ columns' = names
                /\ rows' = data_rows(table)
                /\ tables' = Tail(tables)
                /\ IF rows' # <<>>
                   THEN pc' = "rows" /\ UNCHANGED <<year, month, index>>
                   ELSE Leave(tables')
                /\ error' = error
    /\ UNCHANGED <<args, inventory, site, station_data, daily_data_url, page, climate_data_map,
                   fetches, extracted, dbvars, helpervars>>


\* A variant of the assignment that starts from an empty dict.
StoreInEmptyMap(map, key, climate_data) ==
    [k \in {key} |-> climate_data]

\* dict item assignment: climate_data_map[key] = climate_data
Store(map, key, climate_data) ==
    [k \in DOMAIN map \cup {key} |-> IF k = key THEN climate_data ELSE map[k]]

\* The four leading items of the row data list (lines 344-347, 359-362).
LeadItems(station) ==
    IF args.fetch_all_station_data
    THEN <<StrV(args.city), StrV(station.Province), IntV(station.StationID),
           StrV(station.Name)>>
    ELSE <<StrV(args.city), StrV(station.Province), IntV(0), StrV(<<>>)>>

\* The key a row of the day is stored under (lines 353, 368).
MapKey(station, day) ==
    IF args.fetch_all_station_data
    THEN <<station.Name, station.StationID, year, month, day>>
    ELSE <<year, month, day>>

\* Whether the row data list is made a record and stored (lines 340-392).
Stores(key, row_data) ==
    \/ args.fetch_all_station_data
    \/ key \notin DOMAIN climate_data_map
    \/ ReplacesCurrent(row_data, climate_data_map[key])

\* Lines 311-392: process the next data row of the current table.
ProcessRow ==
    /\ pc = "rows"
    /\ LET cells == Head(rows).td
           station == station_data[index]
           day == DigitsVal(FirstDigitRun(cells[1]))
           row_data == RowData(cells, year, month, daily_data_url, LeadItems(station))
           key == MapKey(station, day)
           Proceed == /\ rows' = Tail(rows)
                      /\ IF rows' # <<>>
                         THEN pc' = "rows" /\ UNCHANGED <<year, month, index>>
                         ELSE Leave(tables)
                      /\ error' = error
           Abort(e) == /\ Raise(e)
                       /\ UNCHANGED <<year, month, index, rows, climate_data_map, extracted>>
       IN  IF cells = <<>> THEN Abort("IndexError")
           ELSE IF FirstDigitRun(cells[1]) = <<>>
                THEN Proceed /\ UNCHANGED <<climate_data_map, extracted>>
           ELSE IF ~Stores(key, row_data)
                THEN /\ Proceed
                     /\ extracted' = Append(extracted, [key |-> key, row |-> row_data])
                     /\ UNCHANGED climate_data_map
           ELSE IF Len(row_data) # Len(columns) THEN Abort("TypeError")
           ELSE /\ Proceed
                /\ extracted' = Append(extracted, [key |-> key, row |-> row_data])
                /\ climate_data_map' =
                      Store(climate_data_map, key, ClimateData(columns, row_data))
    /\ UNCHANGED <<args, inventory, site, station_data, daily_data_url, page, tables, columns,
                   fetches, dbvars, helpervars>>

Next ==
    \/ ResolveStations
    \/ UrlRaises
    \/ FetchRaises
    \/ Fetch
    \/ EnterTable
    \/ ProcessRow

Spec == Init /\ [][Next]_vars


\* ------------------------------------------------- the claims, under Spec

BestStationMode == ~args.fetch_all_station_data

\* The entries of the history that were extracted for the key k.
Candidates(k) == {i \in 1..Len(extracted) : extracted[i].key = k}

\* The value of the field of a record.
Field(climate_data, name) ==
    climate_data.values[CHOOSE i \in 1..Len(climate_data.fields) :
                           climate_data.fields[i] = name]

\* C1: in best-station mode the map holds exactly one record for every
\* date a row was extracted for, and the richness of the record stored
\* under a date is at least the richness of every row extracted so far
\* for that date, from any station.
C1_StoredRecordIsRichest ==
    BestStationMode =>
        /\ DOMAIN climate_data_map = {extracted[i].key : i \in 1..Len(extracted)}
        /\ \A i \in 1..Len(extracted) :
              Richness(climate_data_map[extracted[i].key].values)
                 >= Richness(extracted[i].row)

\* A richer row of a second station has taken the place of the poorer row
\* of the first one.
C1_Witness ==
    /\ BestStationMode
    /\ \E i, j \in 1..Len(extracted) :
          /\ i < j
          /\ extracted[i].key = extracted[j].key
          /\ extracted[i].row[Len(extracted[i].row)] # extracted[j].row[Len(extracted[j].row)]
          /\ Richness(extracted[j].row) > Richness(extracted[i].row)
          /\ climate_data_map[extracted[j].key].values = extracted[j].row

\* The first of the rows extracted for the key k that no row extracted
\* for k is richer than.
FirstRichest(k) ==
    CHOOSE i \in Candidates(k) :
        /\ \A j \in Candidates(k) : Richness(extracted[j].row) <= Richness(extracted[i].row)
        /\ \A j \in Candidates(k) :
              Richness(extracted[j].row) = Richness(extracted[i].row) => i <= j

\* C2: in best-station mode a step that extracts a row for a date that has
\* a record replaces the record exactly when the row is strictly richer,
\* and leaves the whole map as it is otherwise; so the record stored under
\* a date is always the first processed of the richest rows for it.
C2_ReplacedOnlyByStrictlyRicher ==
    [][ (BestStationMode /\ extracted' # extracted) =>
          LET new == extracted'[Len(extracted')]
          IN  /\ new.key \in DOMAIN climate_data_map =>
                    IF Richness(new.row) > Richness(climate_data_map[new.key].values)
                    THEN climate_data_map'[new.key].values = new.row
                    ELSE climate_data_map' = climate_data_map
              /\ \A k \in DOMAIN climate_data_map' :
                    climate_data_map'[k].values = extracted'[FirstRichest(k)'].row
      ]_vars

\* Two rows as rich as each other were extracted for a date, from two
\* stations, no row is richer, and the first is the one in the finished map.
C2_Witness ==
    /\ BestStationMode
    /\ pc = "done"
    /\ \E i, j \in 1..Len(extracted) :
          /\ i < j
          /\ extracted[i].key = extracted[j].key
          /\ extracted[i].row # extracted[j].row
          /\ Richness(extracted[j].row) = Richness(extracted[i].row)
          /\ i = FirstRichest(extracted[i].key)
          /\ climate_data_map[extracted[i].key].values = extracted[i].row

\* C3: in all-station mode every extracted row is in the map under its
\* key, overwritten by no later row.
C3_EveryRowRetained ==
    args.fetch_all_station_data =>
        \A i \in 1..Len(extracted) :
            /\ extracted[i].key \in DOMAIN climate_data_map
            /\ climate_data_map[extracted[i].key].values = extracted[i].row

\* The months from the start to the end, both included, in calendar order,
\* as numbers of months since year 0.
MonthNumber(y, m) == 12 * y + (m - 1)

\* The requests of a whole run over the stations: every month of the range
\* in calendar order, and for every month every station in turn.
ExpectedFetches(a, stations) ==
    LET lo == MonthNumber(a.start_year, a.start_month)
        hi == MonthNumber(a.end_year, a.end_month)
        n == Len(stations)
        count == IF hi < lo THEN 0 ELSE (hi - lo + 1) * n
    IN  [j \in 1..count |->
            [station |-> stations[((j - 1) % n) + 1].StationID,
             year |-> (lo + ((j - 1) \div n)) \div 12,
             month |-> ((lo + ((j - 1) \div n)) % 12) + 1]]

\* The requests issued so far are the first ones of the expected requests,
\* in their order, and all of them once the map is returned.
FetchesInRangeOrder ==
    LET expected == ExpectedFetches(args, station_data)
    IN  /\ Len(fetches) <= Len(expected)
        /\ fetches = SubSeq(expected, 1, Len(fetches))
        /\ pc = "done" => fetches = expected

\* C4: a call that resolved its stations (all of a province the province
\* map knows) ends by returning the map, having issued exactly the
\* expected requests in their order.
C4_AllFetchesThenReturn ==
    ( /\ pc \in {"done", "raised"}
      /\ station_data # <<>>
      /\ \A i \in 1..Len(station_data) : InProvinceMap(station_data[i].Province) )
    => (pc = "done" /\ fetches = ExpectedFetches(args, station_data))

\* C6: when no row of the inventory matches the city and province, the
\* call ends with NoLocationFoundError, no request was issued and no map
\* is returned.
C6_NoLocationIsFatal ==
    ( /\ pc # "start"
      /\ \A i \in 1..Len(inventory) :
            ~StationMatches(inventory[i], args.city, args.province) )
    => (pc = "raised" /\ error = "NoLocationFoundError" /\ fetches = <<>>)

\* The city has a station, of another province than the one asked for.
C6_Witness ==
    /\ pc = "raised"
    /\ error = "NoLocationFoundError"
    /\ args.province # <<>>
    /\ \E i \in 1..Len(inventory) : inventory[i].Name = Upper(args.city)

\* C7: the failure of the fetch of one station-month never ends the call
\* by raising.
C7_FetchFailureIsNotFatal == ~(pc = "raised" /\ error = "ConnectionError")

NoCaptionOfTheMonth(doc, m, y) ==
    \A i \in 1..Len(doc) : ~Contains(doc[i].caption, caption_text(m, y))

\* C8: a fetch that returns a document with no caption of the requested
\* month leaves the map as it is, extracts nothing, raises nothing and
\* moves the call on to the next station-month (or to its return).
C8_NoCaptionNoChange ==
    [][ ( /\ pc = "fetch"
          /\ fetches' # fetches
          /\ error' # "ConnectionError"
          /\ NoCaptionOfTheMonth(page', month, year) )
        => /\ climate_data_map' = climate_data_map
           /\ extracted' = extracted
           /\ error' = "none"
           /\ pc' \in {"fetch", "done"}
           /\ <<year', month', index'>> # <<year, month, index>>
           /\ LET pos == NextPosition(args, Len(station_data), year, month, index)
              IN  <<year', month', index'>> = <<pos.year, pos.month, pos.index>>
      ]_vars

\* The page of the second station has a caption, of another month, and the
\* record of the first station is still in the map.
C8_Witness ==
    /\ pc = "done"
    /\ page # <<>>
    /\ NoCaptionOfTheMonth(page, fetches[Len(fetches)].month, fetches[Len(fetches)].year)
    /\ Len(fetches) = 2
    /\ climate_data_map # <<>>

KeyDay(k) == k[Len(k)]

KeyMonth(k) == k[Len(k) - 1]

KeyYear(k) == k[Len(k) - 2]

\* C9: every record of a finished map has an integer day field equal to
\* the day of its key (the first run of digits of the row's first cell),
\* and year and month fields equal to the year and month of its key.
C9_DayFieldIsKeyDay ==
    pc = "done" =>
        \A k \in DOMAIN climate_data_map :
            /\ Field(climate_data_map[k], <<"day">>) = IntV(KeyDay(k))
            /\ Field(climate_data_map[k], <<"month">>) = IntV(KeyMonth(k))
            /\ Field(climate_data_map[k], <<"year">>) = IntV(KeyYear(k))


\* --------------------------------------- get_station_data, on its own

\* The longest station name of the inventories of SpecResolve.
MaxNameLen == 4

\* The station names: letters and spaces, a letter first and last.
StationNames ==
    { n \in UNION { [1..k -> {"A", "B", " "}] : k \in 1..MaxNameLen } :
        n[1] # " " /\ n[Len(n)] # " " }

InventoryRow(name, id, province) ==
    [Name |-> name, StationID |-> id, Province |-> province]

\* The inventories of at most two stations.
Inventories ==
    { <<>> }
    \cup { <<InventoryRow(n, 10, p)>> : n \in StationNames, p \in {ONTARIO, QUEBEC} }
    \cup { <<InventoryRow(n1, 10, ONTARIO), InventoryRow(n2, 11, p)>> :
           n1 \in StationNames, n2 \in StationNames, p \in {ONTARIO, QUEBEC} }

InitResolve ==
    /\ inventory \in Inventories
    /\ site = "blank"
    /\ \E city \in { <<"a">>, <<"A", "b">> },
          province \in { <<>>, <<"Q", "u", "e", "b", "e", "c">> } :
          args = Arguments(city, province, FirstYear, 1, FirstYear, 1, TRUE)
    /\ InitCall

SpecResolve == InitResolve /\ [][ResolveStations]_vars

\* What get_station_data returned: nothing when it raised.
Resolved == IF pc = "raised" THEN <<>> ELSE station_data

EqualsCity(name, city) == Upper(name) = Upper(city)

\* The name starts with the city name and a space.
StartsWithCity(name, city) ==
    /\ Len(name) > Len(city)
    /\ \A i \in 1..Len(city) : name[i] = UpperChar(city[i])
    /\ name[Len(city) + 1] = " "

\* The name holds, from some position on, the city name and a space.
HoldsCityAndSpace(name, city) ==
    \E p \in 1..Len(name) :
        /\ p + Len(city) <= Len(name)
        /\ \A i \in 1..Len(city) : name[p + i - 1] = UpperChar(city[i])
        /\ name[p + Len(city)] = " "

ProvinceAsked(row, province) ==
    province = <<>> \/ Upper(row.Province) = Upper(province)

\* C5, as stated: get_station_data returns exactly the rows whose name is
\* the city or starts with the city followed by a separator, of the
\* province asked for when one is.
C5_NameIsCityOrStartsWithIt ==
    pc # "start" =>
        Resolved = SelectSeq(inventory, LAMBDA row :
                      /\ EqualsCity(row.Name, args.city)
                            \/ StartsWithCity(row.Name, args.city)
                      /\ ProvinceAsked(row, args.province))

\* C5, amended: get_station_data returns exactly the rows whose name is
\* the city or holds, at any position, the city followed by a space, of
\* the province asked for when one is.
C5_NameIsCityOrHoldsIt ==
    pc # "start" =>
        Resolved = SelectSeq(inventory, LAMBDA row :
                      /\ EqualsCity(row.Name, args.city)
                            \/ HoldsCityAndSpace(row.Name, args.city)
                      /\ ProvinceAsked(row, args.province))

\* Two stations were returned, one named as the city and one whose name
\* holds the city name and a space but does not start with them, and a
\* third one, of another province than the one asked for, was not.
C5_Witness ==
    /\ pc = "fetch"
    /\ Len(station_data) = 2
    /\ EqualsCity(station_data[1].Name, args.city)
    /\ ~EqualsCity(station_data[2].Name, args.city)
    /\ ~StartsWithCity(station_data[2].Name, args.city)


\* --------------------------------- insert_climate_data_into_database

Range(seq) == {seq[i] : i \in 1..Len(seq)}

Column(name, type, primary_key) ==
    [name |-> name, type |-> type, primary_key |-> primary_key]

\* The table of lines 589-612, its columns in their order.
sql_table ==
    << Column(<<"city">>, "String", TRUE),
       Column(<<"province">>, "String", FALSE),
       Column(<<"station_id">>, "Integer", FALSE),
       Column(<<"station_name">>, "String", TRUE),
       Column(<<"monthly_data_url">>, "String", FALSE),
       Column(<<"year">>, "Integer", TRUE),
       Column(<<"month">>, "Integer", TRUE),
       Column(<<"day">>, "Integer", TRUE),
       Column(<<"max", "_", "temp">>, "DECIMAL", FALSE),
       Column(<<"min", "_", "temp">>, "DECIMAL", FALSE),
       Column(<<"mean", "_", "temp">>, "DECIMAL", FALSE),
       Column(<<"extr", "_", "max", "_", "temp">>, "DECIMAL", FALSE),
       Column(<<"extr", "_", "min", "_", "temp">>, "DECIMAL", FALSE),
       Column(<<"cool", "_", "deg", "_", "days">>, "DECIMAL", FALSE),
       Column(<<"heat", "_", "deg", "_", "days">>, "DECIMAL", FALSE),
       Column(<<"total", "_", "rain">>, "DECIMAL", FALSE),
       Column(<<"total", "_", "snow">>, "DECIMAL", FALSE),
       Column(<<"total", "_", "prec">>, "DECIMAL", FALSE),
       Column(<<"snow", "_", "on", "_", "grnd">>, "DECIMAL", FALSE),
       Column(<<"dir", "_", "of", "_", "max", "_", "gust">>, "DECIMAL", FALSE),
       Column(<<"spd", "_", "of", "_", "max", "_", "gust">>, "String", FALSE) >>

ColumnNames == {sql_table[i].name : i \in 1..Len(sql_table)}

KeyColumns == {sql_table[i].name : i \in {j \in 1..Len(sql_table) : sql_table[j].primary_key}}

NonKeyColumns == ColumnNames \ KeyColumns

ColumnType(name) ==
    sql_table[CHOOSE i \in 1..Len(sql_table) : sql_table[i].name = name].type

\* The default value of a column the record has no field for.
get_default_data_value(column_name) ==
    IF column_name \in { <<"station_name">>, <<"city">>, <<"province">>,
                         <<"monthly_data_url">> }
    THEN StrV(<<>>) ELSE IntV(0)

\* What get_column_names_from_database_table returns: the schema query
\* yields one record, the text of the CREATE TABLE statement, and the text
\* between the first two quotes of str(record) is that whole statement.
sql_column_name_list == << <<"CREATE TABLE gov_of_canada_weather_data (...)">> >>

\* The sub-strings whose values are replaced by 0.
list_of_strings_to_check_for ==
    { Legend \o <<"M", "M">>, Legend \o <<"T", "T">>, <<"BACKSLASH", "x", "a">> }

\* The column map of a record: its fields, the defaults of the names of
\* sql_column_name_list it lacks, and 0 for every empty or flagged value.
construct_column_insert_map_from_tuple(tuple) ==
    LET column_map == [n \in Range(tuple.fields) |-> Field(tuple, n)]
        missing_column_entries ==
            {n \in Range(sql_column_name_list) : n \notin DOMAIN column_map}
        with_defaults ==
            [n \in DOMAIN column_map \cup missing_column_entries |->
                IF n \in DOMAIN column_map THEN column_map[n]
                ELSE get_default_data_value(n)]
    IN  [n \in DOMAIN with_defaults |->
            IF \/ PyStr(with_defaults[n]) = <<>>
               \/ \E sub_string \in list_of_strings_to_check_for :
                     Contains(PyStr(with_defaults[n]), sub_string)
            THEN IntV(0) ELSE with_defaults[n]]

RECURSIVE ReplaceSymbol(_, _, _)
\* str.replace(old, new) for a one-character old
ReplaceSymbol(s, old, new) ==
    IF s = <<>> THEN <<>>
    ELSE (IF s[1] = old THEN new ELSE <<s[1]>>) \o ReplaceSymbol(Tail(s), old, new)

\* repr(s) of a str: between double quotes ("QUOT") when s holds a single
\* quote and no double quote, else between single quotes with the single
\* quotes and the backslashes of s escaped.
Repr(s) ==
    LET escaped == ReplaceSymbol(s, "BACKSLASH", <<"BACKSLASH", "BACKSLASH">>)
    IN  IF "'" \in Range(s) /\ "QUOT" \notin Range(s)
        THEN <<"QUOT">> \o escaped \o <<"QUOT">>
        ELSE <<"'">> \o ReplaceSymbol(escaped, "'", <<"BACKSLASH", "'">>) \o <<"'">>

\* The text a column's value is written as in the UPDATE statement:
\* "{!r}".format(str(value).replace('\'', '\'\''))
SqlText(value) == Repr(ReplaceSymbol(PyStr(value), "'", <<"'", "'">>))

\* The UPDATE statement of a column map, as the texts it gives the non-key
\* columns in its SET clause and the key columns in its WHERE clause; only
\* the WHERE clause has its double quotes replaced by single quotes.
generate_update_table_sql(column_map) ==
    [set |-> [c \in NonKeyColumns |->
                SqlText(IF c \in DOMAIN column_map THEN column_map[c]
                        ELSE get_default_data_value(c))],
     where |-> [c \in KeyColumns |->
                ReplaceSymbol(SqlText(column_map[c]), "QUOT", <<"'">>)]]

\* ------------------------------------------------ the database engine

\* The NULL of a column an INSERT gives no value.
Null == [t |-> "null", v |-> 0]

\* The number m / 10^d as the engine stores it: an integer when it has no
\* decimals.
Num(m, d) ==
    LET nd == Normalize(m, d)
    IN  IF nd[2] = 0 THEN IntV(nd[1]) ELSE FloatV(nd[1], nd[2])

\* The value a column of the type stores for a value given to it: a
\* String column (TEXT affinity) stores a number as its text; an Integer
\* or DECIMAL column (INTEGER, NUMERIC affinity) stores a text that writes
\* a number as that number, and any other text as it is.
Affinity(type, value) ==
    CASE value.t = "null" -> value
      [] type = "String" -> StrV(PyStr(value))
      [] value.t = "int" -> value
      [] value.t = "float" -> Num(value.v[1], value.v[2])
      [] OTHER -> IF FloatSyntax(value.v)
                  THEN Num(FloatOfText(value.v).v[1], FloatOfText(value.v).v[2])
                  ELSE value

\* The bind processing of a parameter of an INSERT: float(value) for a
\* DECIMAL column, which raises for a str that writes no number.
BindRaises(type, value) ==
    type = "DECIMAL" /\ value.t = "str" /\ ~FloatSyntax(value.v)

Bind(type, value) ==
    IF type = "DECIMAL" /\ value.t = "str" THEN FloatOfText(value.v) ELSE value

\* The row sql_table.insert() stores for a column map: the keys of the map
\* that are no column of the table are ignored, the columns that are no
\* key of the map are NULL.
InsertedRow(column_map) ==
    [c \in ColumnNames |->
        IF c \in DOMAIN column_map
        THEN Affinity(ColumnType(c), Bind(ColumnType(c), column_map[c]))
        ELSE Null]

\* The primary key of a row: city, station_name, year, month, day.
PrimaryKey(row) ==
    LET key_columns == SelectSeq(sql_table, LAMBDA c : c.primary_key)
    IN  [i \in 1..Len(key_columns) |-> row[key_columns[i].name]]

RECURSIVE Unquote(_, _)
\* The text of a quoted SQL token after its opening quote q: a doubled q
\* stands for one q, a single q closes the token and must end it.
Unquote(body, q) ==
    IF body = <<>> THEN [ok |-> FALSE, text |-> <<>>]
    ELSE IF body[1] # q
         THEN LET rest == Unquote(Tail(body), q)
              IN  [ok |-> rest.ok, text |-> <<body[1]>> \o rest.text]
    ELSE IF Len(body) >= 2 /\ body[2] = q
         THEN LET rest == Unquote(Drop(body, 2), q)
              IN  [ok |-> rest.ok, text |-> <<q>> \o rest.text]
    ELSE [ok |-> Len(body) = 1, text |-> <<>>]

\* The value the engine reads a token of the statement as. A token in
\* single quotes is a string literal. A token in double quotes is an
\* identifier and names no column here: the engine either takes it for a
\* string literal (dqs: builds that accept double-quoted strings) or
\* fails with "no such column".
Literal(token, dqs) ==
    IF token[1] = "'" THEN Unquote(Tail(token), "'")
    ELSE [ok |-> dqs /\ Unquote(Tail(token), "QUOT").ok,
          text |-> Unquote(Tail(token), "QUOT").text]

\* eng.execute(update_sql_statement): fails when a token cannot be read,
\* else gives the rows that pass the WHERE clause the values of the SET
\* clause.
ExecuteUpdate(statement, dqs, table) ==
    LET Read(c, token) == Affinity(ColumnType(c), StrV(Literal(token, dqs).text))
        Passes(row) == \A c \in KeyColumns : row[c] = Read(c, statement.where[c])
    IN  [ok |-> /\ \A c \in NonKeyColumns : Literal(statement.set[c], dqs).ok
                /\ \A c \in KeyColumns : Literal(statement.where[c], dqs).ok,
         table |-> [k \in DOMAIN table |->
                      IF Passes(table[k])
                      THEN [c \in ColumnNames |->
                              IF c \in NonKeyColumns
                              THEN Read(c, statement.set[c]) ELSE table[k][c]]
                      ELSE table[k]]]

\* ------------------------------------------- the records to persist

\* The most records of the maps persisted in a run of SpecDb.
MaxRecords == 2

GustLink ==
    [has_abbr |-> TRUE, abbr |-> <<"Spd", " ", "of", " ", "Max", " ", "Gust">>,
     text |-> <<"Spd", " ", "of", " ", "Max", " ", "Gust", "km/h">>]

\* The stations of the city whose records are persisted; the name of the
\* second one holds an apostrophe.
DbInventory ==
    << [Name |-> <<"A", "Y", "R">>, StationID |-> 10, Province |-> ONTARIO],
       [Name |-> <<"A", "Y", "R", " ", "O", "'", "B">>, StationID |-> 11,
        Province |-> ONTARIO] >>

\* The texts of the first cell of a row.
DbDayCells == {Day01, Day02, Day01Legend}

\* The texts of the Max Temp cell of a row: a value, a missing value, a
\* flagged value, a text that writes no number.
DbTempCells == {ValueCell, MissingCell, LegendCell, <<"M">>}

\* The texts of the Spd of Max Gust cell of a row; the last one holds an
\* apostrophe.
DbGustCells == { <<"3", "1">>, <<"<", "3", "1">>, <<"3", "'">> }

\* The columns of a report table with the two headers.
DbColumns == column_header_list(Table(<<>>, <<MaxTempLink, GustLink>>, <<>>))

\* The records get_climate_data_map makes of the rows of the January
\* reports of the stations, in the mode of the arguments.
DbRecords ==
    { ClimateData(DbColumns,
                  RowData(<<d, t, g>>, FirstYear, 1,
                          get_gc_ca_daily_data_url(DbInventory[i].StationID,
                              province_map(DbInventory[i].Province), 1, FirstYear),
                          LeadItems(DbInventory[i]))) :
        i \in 1..Len(DbInventory), d \in DbDayCells, t \in DbTempCells, g \in DbGustCells }

\* The state when the loop of line 623 starts on an empty table: pending
\* holds the values of the maps persisted, in their order. The maps of
\* successive calls with drop_and_create_table = False are persisted one
\* after the other into the same table, so two pending records may be for
\* the same station and day.
InitDb ==
    /\ inventory = DbInventory
    /\ site = "blank"
    /\ \E all \in BOOLEAN :
          args = Arguments(<<"A", "y", "r">>, <<>>, FirstYear, 1, FirstYear, 1, all)
    /\ pc = "persist"
    /\ error = "none"
    /\ station_data = <<>>
    /\ year = 0 /\ month = 0 /\ index = 0
    /\ daily_data_url = <<>>
    /\ page = <<>>
    /\ tables = <<>>
    /\ columns = <<>>
    /\ rows = <<>>
    /\ climate_data_map = <<>>
    /\ fetches = <<>>
    /\ extracted = <<>>
    /\ pending \in RowSeqs(DbRecords, MaxRecords)
    /\ sink = <<>>
    /\ persisted = <<>>
    /\ argument = NoValue
    /\ returned = NoValue

scrapervars ==
    <<args, inventory, site, station_data, year, month, index, daily_data_url, page, tables,
      columns, rows, climate_data_map, fetches, extracted>>

\* The loop of line 623 moves to its next record, or ends.
NextRecord ==
    /\ pending' = Tail(pending)
    /\ persisted' = Append(persisted, Head(pending))
    /\ pc' = IF pending' = <<>> THEN "persisted" ELSE "persist"
    /\ error' = error

\* Lines 625-631: the INSERT fails on a parameter, with an error that is
\* no IntegrityError.
InsertRaises ==
    /\ pc = "persist"
    /\ pending # <<>>
    /\ LET column_map == construct_column_insert_map_from_tuple(Head(pending))
       IN  \E c \in ColumnNames \cap DOMAIN column_map :
              BindRaises(ColumnType(c), column_map[c])
    /\ Raise("StatementError")
    /\ UNCHANGED <<scrapervars, dbvars, helpervars>>

\* Lines 625-631: the record is inserted.
Insert ==
    /\ pc = "persist"
    /\ pending # <<>>
    /\ LET column_map == construct_column_insert_map_from_tuple(Head(pending))
           row == InsertedRow(column_map)
       IN  /\ \A c \in ColumnNames \cap DOMAIN column_map :
                 ~BindRaises(ColumnType(c), column_map[c])
           /\ PrimaryKey(row) \notin DOMAIN sink
           /\ sink' = Store(sink, PrimaryKey(row), row)
    /\ NextRecord
    /\ UNCHANGED <<scrapervars, helpervars>>

\* Lines 625-639: the INSERT raises IntegrityError, the table has a row of
\* the primary key; the UPDATE statement is generated and executed.
Update ==
    /\ pc = "persist"
    /\ pending # <<>>
    /\ LET column_map == construct_column_insert_map_from_tuple(Head(pending))
           row == InsertedRow(column_map)
       IN  /\ \A c \in ColumnNames \cap DOMAIN column_map :
                 ~BindRaises(ColumnType(c), column_map[c])
           /\ PrimaryKey(row) \in DOMAIN sink
           /\ \E dqs \in BOOLEAN :
                 LET done == ExecuteUpdate(generate_update_table_sql(column_map), dqs, sink)
                 IN  IF done.ok
                     THEN sink' = done.table /\ NextRecord
                     ELSE Raise("OperationalError") /\ UNCHANGED dbvars
    /\ UNCHANGED <<scrapervars, helpervars>>

NextDb ==
    \/ InsertRaises
    \/ Insert
    \/ Update

SpecDb == InitDb /\ [][NextDb]_vars

\* ----------------------------------------------- the claim, under SpecDb

\* The row an INSERT of the record into an empty table stores.
RowOf(record) == InsertedRow(construct_column_insert_map_from_tuple(record))

\* The last of the persisted records of the primary key k.
LastPersisted(k) ==
    persisted[CHOOSE i \in 1..Len(persisted) :
                 /\ PrimaryKey(RowOf(persisted[i])) = k
                 /\ \A j \in (i + 1)..Len(persisted) :
                       PrimaryKey(RowOf(persisted[j])) # k]

\* The table has one row for every primary key persisted and no other
\* row, and the row of a key has, in every column the last record
\* persisted for the key has a field for, the value of that field.
SinkHoldsLastRecords ==
    /\ DOMAIN sink = {PrimaryKey(RowOf(persisted[i])) : i \in 1..Len(persisted)}
    /\ \A k \in DOMAIN sink :
          \A c \in ColumnNames \cap Range(LastPersisted(k).fields) :
              sink[k][c] = RowOf(LastPersisted(k))[c]

\* C10: persisting a record whose primary key is in the table takes the
\* UPDATE path with no error reaching the caller, neither the duplicate
\* key error nor an error of the UPDATE statement, and after every
\* persisted record the table holds exactly one row per key, carrying the
\* values of the record persisted last for the key.
C10_InsertOrUpdate ==
    /\ error \notin {"IntegrityError", "OperationalError"}
    /\ SinkHoldsLastRecords

\* No text value of a record to persist or persisted holds an apostrophe
\* in a String column that is no key.
NoApostropheToSet ==
    \A i \in 1..Len(persisted \o pending) :
        LET column_map == construct_column_insert_map_from_tuple((persisted \o pending)[i])
        IN  \A c \in NonKeyColumns \cap DOMAIN column_map :
               ColumnType(c) = "String" => "'" \notin Range(PyStr(column_map[c]))

\* The insert-or-update semantics holds for the records with no such
\* apostrophe, whatever the key columns hold.
UpdateKeepsPlainValues == NoApostropheToSet => C10_InsertOrUpdate

\* A record of a station whose name holds an apostrophe was persisted
\* over a row of its key, by an UPDATE that found the row.
UpdateFindsQuotedKey ==
    /\ pc = "persisted"
    /\ Len(persisted) = 2
    /\ Cardinality(DOMAIN sink) = 1
    /\ "'" \in Range(PyStr(Field(persisted[2], <<"station_name">>)))
    /\ Field(persisted[1], <<"max", "_", "temp">>) # Field(persisted[2], <<"max", "_", "temp">>)
    /\ SinkHoldsLastRecords


\* ------------------------------------- the coercion helpers, on their own

\* The longest text, before its suffix, a helper is called on.
MaxTextLen == 4

\* The characters of the texts: digits, signs, a point, a blank, letters,
\* a character that is not ASCII.
TextAlphabet == {"0", "1", "+", "-", ".", " ", "a", "b", "DAGGER"}

\* What may follow the text: nothing, a flag of the site, a piece of one.
TextSuffixes == { <<>>, Legend \o <<"E">>, <<"L", "e", "g">> }

\* The values a helper is called on: the cell texts, and the numbers the
\* row data lists and the records hold.
HelperArguments ==
    { StrV(t \o x) : t \in RowSeqs(TextAlphabet, MaxTextLen), x \in TextSuffixes }
    \cup { IntV(n) : n \in {-3, 0, 1, 5, 2018} }
    \cup { FloatV(0, 0), FloatV(25, 1), FloatV(-5, 1), FloatV(3, 0) }

InitHelper ==
    /\ inventory = Inventory
    /\ site = "blank"
    /\ args = Arguments(<<"A", "y", "r">>, <<>>, FirstYear, 1, FirstYear, 1, TRUE)
    /\ pc = "call"
    /\ error = "none"
    /\ station_data = <<>>
    /\ year = 0 /\ month = 0 /\ index = 0
    /\ daily_data_url = <<>>
    /\ page = <<>>
    /\ tables = <<>>
    /\ columns = <<>>
    /\ rows = <<>>
    /\ climate_data_map = <<>>
    /\ fetches = <<>>
    /\ extracted = <<>>
    /\ pending = <<>>
    /\ sink = <<>>
    /\ persisted = <<>>
    /\ argument \in HelperArguments
    /\ returned = NoValue

\* try_to_convert_to_numeric(argument) returns.
Convert ==
    /\ pc = "call"
    /\ returned' = try_to_convert_to_numeric(argument)
    /\ pc' = "converted"
    /\ UNCHANGED <<scrapervars, dbvars, error, argument>>

\* has_non_zero_digits(argument) returns.
Score ==
    /\ pc = "call"
    /\ returned' = has_non_zero_digits(argument)
    /\ pc' = "scored"
    /\ UNCHANGED <<scrapervars, dbvars, error, argument>>

NextHelper ==
    \/ Convert
    \/ Score

SpecHelper == InitHelper /\ [][NextHelper]_vars

\* ----------------------------------------- the claims, under SpecHelper

\* The text without its characters that are not ASCII.
StrippedText(s) == SelectSeq(s, LAMBDA c : c \notin NonASCII)

\* The text without the blanks around it.
Trimmed(s) ==
    LET inside == {i \in 1..Len(s) : s[i] # " "}
    IN  IF inside = {} THEN <<>>
        ELSE SubSeq(s, CHOOSE i \in inside : \A j \in inside : i <= j,
                       CHOOSE i \in inside : \A j \in inside : i >= j)

\* The text without the sign it starts with.
Unsign(t) == IF t # <<>> /\ t[1] \in {"+", "-"} THEN Tail(t) ELSE t

SignOf(t) == IF t # <<>> /\ t[1] = "-" THEN -1 ELSE 1

\* The text writes an integer: blanks, a sign or none, digits, blanks.
WritesInteger(s) ==
    LET b == Unsign(Trimmed(s))
    IN  b # <<>> /\ \A i \in 1..Len(b) : b[i] \in Digits

\* The text writes a number with a decimal point: as an integer, with one
\* point among or next to its digits.
WritesDecimal(s) ==
    LET b == Unsign(Trimmed(s))
    IN  /\ Len(b) >= 2
        /\ \E p \in 1..Len(b) :
              b[p] = "." /\ \A i \in 1..Len(b) : i # p => b[i] \in Digits

\* The lengths of the starts of the text that write a number: a sign or
\* none, digits, and a point followed by digits or none.
NumericStarts(s) ==
    { k \in 1..Len(s) :
        LET b == Unsign(SubSeq(s, 1, k))
        IN  /\ b # <<>>
            /\ b[Len(b)] \in Digits
            /\ \A i \in 1..Len(b) : b[i] \in Digits \cup {"."}
            /\ Cardinality({i \in 1..Len(b) : b[i] = "."}) <= 1 }

HoldsLegend(s) ==
    \E i \in 1..Len(s) :
        i + 5 <= Len(s) /\ SubSeq(s, i, i + 5) = <<"L", "e", "g", "e", "n", "d">>

\* The integer text is written as str writes it: no blank, no plus sign,
\* no zero before its digits.
WrittenAsStr(s) ==
    /\ WritesInteger(s)
    /\ \A i \in 1..Len(s) : s[i] \notin {" ", "+"}
    /\ Len(Unsign(s)) > 1 => Unsign(s)[1] # "0"
    /\ s # <<"-", "0">>

\* C11: try_to_convert_to_numeric of a text never raises and decides in
\* this order on the text without its non-ASCII characters: a text that
\* writes an integer gives that integer (and str of it is the text again
\* when the text is written as str writes integers); else a text that
\* writes a decimal number gives that float; else a text that starts with
\* a number and holds "Legend" gives its longest numeric start, as a str;
\* else the stripped text is returned as it is.
C11_CoercionOrder ==
    (pc = "converted" /\ argument.t = "str") =>
        LET s == StrippedText(argument.v)
            b == Unsign(Trimmed(s))
            digits == SelectSeq(b, LAMBDA c : c # ".")
            decimals == Len(b) - (CHOOSE p \in 1..Len(b) : b[p] = ".")
            longest == CHOOSE k \in NumericStarts(s) : \A j \in NumericStarts(s) : j <= k
        IN  /\ error = "none"
            /\ IF WritesInteger(s)
               THEN /\ returned = IntV(SignOf(Trimmed(s)) * DigitsVal(b))
                    /\ WrittenAsStr(s) => IntStr(returned.v) = s
               ELSE IF WritesDecimal(s)
               THEN /\ returned.t = "float"
                    /\ returned.v[1] * Pow10(decimals)
                          = SignOf(Trimmed(s)) * DigitsVal(digits) * Pow10(returned.v[2])
               ELSE IF NumericStarts(s) # {} /\ HoldsLegend(s)
               THEN returned = StrV(SubSeq(s, 1, longest))
               ELSE returned = StrV(s)

\* A text with a character that is not ASCII, a decimal number at
\* its start and a flag after it was converted to the number's text.
C11_Witness ==
    /\ pc = "converted"
    /\ argument.t = "str"
    /\ "DAGGER" \in Range(argument.v)
    /\ returned = StrV(<<"1", ".", "0">>)
    /\ HoldsLegend(argument.v)

\* C12: has_non_zero_digits is true exactly for the numbers that are not
\* zero and for the texts that hold a digit from 1 to 9; it is false for 0
\* and for "a0b", true for 5 and for "a1b".
C12_NonZeroDigits ==
    pc = "scored" =>
        /\ returned \in BOOLEAN
        /\ argument.t = "int" => (returned <=> argument.v # 0)
        /\ argument.t = "float" => (returned <=> argument.v[1] # 0)
        /\ argument.t = "str" =>
              (returned <=> \E i \in 1..Len(argument.v) :
                               argument.v[i] \in Digits \ {"0"})
        /\ argument = IntV(0) => ~returned
        /\ argument = StrV(<<"a", "0", "b">>) => ~returned
        /\ argument = IntV(5) => returned
        /\ argument = StrV(<<"a", "1", "b">>) => returned

\* The helper was called on "a0b", a text whose only digit is a zero.
C12_Witness ==
    /\ pc = "scored"
    /\ argument = StrV(<<"a", "0", "b">>)
    /\ returned = FALSE


\* ------------------------------------------ more claims, under Spec

\* The table whose rows are being processed is the table of the first
\* caption of the page that holds the caption text.
InFirstMatchedTable ==
    Len(tables) = Len(MatchedTables(page, month, year)) - 1

\* C13: for one fetched document, rows are extracted from the table of the
\* first matching caption only: no step extracts a row from the table of a
\* second or later caption that holds the caption text.
C13_FirstCaptionOnly ==
    [][ extracted' # extracted => InFirstMatchedTable ]_vars

\* The rows of the table that come after its first two rows and have no
\* th cell, in their order.
RowsToRead(table) ==
    LET at == {i \in 3..Len(table.rows) : ~table.rows[i].th}
    IN  [j \in 1..Cardinality(at) |->
            table.rows[CHOOSE i \in at : Cardinality({h \in at : h <= i}) = j]]

\* The first cell of the row holds a digit.
HasDayCell(table_row) ==
    /\ table_row.td # <<>>
    /\ \E i \in 1..Len(table_row.td[1]) : table_row.td[1][i] \in Digits

\* C14: the rows read of a matched table are its rows after the first two
\* that have no th cell; a read row whose first cell holds a digit gives a
\* record (unless the assembly of the record fails, which is C15), and
\* every other read row is skipped: nothing is extracted, the map stays as
\* it is and nothing is raised.
C14_RowsRead ==
    [][ /\ (pc = "table" /\ pc' # "raised") => rows' = RowsToRead(Head(tables))
        /\ pc = "rows" =>
              IF HasDayCell(Head(rows))
              THEN error' # "TypeError" => Len(extracted') = Len(extracted) + 1
              ELSE /\ extracted' = extracted
                   /\ climate_data_map' = climate_data_map
                   /\ pc' # "raised"
      ]_vars

\* The same for the read rows that have a td cell: these are read, give a
\* record or are skipped as C14 says.
RowsWithCellsRead ==
    [][ /\ (pc = "table" /\ pc' # "raised") => rows' = RowsToRead(Head(tables))
        /\ (pc = "rows" /\ Head(rows).td # <<>>) =>
              IF HasDayCell(Head(rows))
              THEN error' # "TypeError" => Len(extracted') = Len(extracted) + 1
              ELSE /\ extracted' = extracted
                   /\ climate_data_map' = climate_data_map
                   /\ pc' # "raised"
      ]_vars

\* The names a record starts with, and the name it ends with.
LeadNames ==
    << <<"city">>, <<"province">>, <<"station_id">>, <<"station_name">>,
       <<"year">>, <<"month">>, <<"day">> >>

\* The record stored under k has one value for each name; the names are
\* the seven leading ones, the measurement columns and monthly_data_url
\* last; the city is the one asked for, the last value is the URL fetched
\* for a station of the record's province in the month and year of k, and
\* the station id and name are 0 and '' in best-station mode and those of
\* the key in all-station mode.
RecordAsSpecified(k) ==
    LET r == climate_data_map[k]
        n == Len(r.fields)
    IN  /\ Len(r.values) = n
        /\ n >= Len(LeadNames) + 1
        /\ SubSeq(r.fields, 1, Len(LeadNames)) = LeadNames
        /\ r.fields[n] = <<"monthly_data_url">>
        /\ r.values[1] = StrV(args.city)
        /\ \E i \in 1..Len(fetches) :
              /\ fetches[i].year = KeyYear(k)
              /\ fetches[i].month = KeyMonth(k)
              /\ r.values[n] =
                    StrV(get_gc_ca_daily_data_url(fetches[i].station,
                            province_map(r.values[2].v), KeyMonth(k), KeyYear(k)))
              /\ BestStationMode =>
                    r.values[3] = IntV(0) /\ r.values[4] = StrV(<<>>)
              /\ ~BestStationMode =>
                    /\ r.values[3] = IntV(k[2]) /\ r.values[4] = StrV(k[1])
                    /\ fetches[i].station = k[2]

\* C15: the schema of a matched table has as many names as each of its
\* data rows has values (the seven items put around the cells included),
\* the assembly of a record never fails, and every record in the map has
\* the fields the spec lists.
C15_SchemaFitsEveryRow ==
    /\ (pc = "rows" /\ HasDayCell(Head(rows))) =>
           Len(columns) = Len(Head(rows).td) + Len(LeadNames)
    /\ error \notin {"TypeError", "ValueError"}
    /\ \A k \in DOMAIN climate_data_map : RecordAsSpecified(k)

\* The records that are in the map have the fields the spec lists.
StoredRecordsAsSpecified ==
    \A k \in DOMAIN climate_data_map : RecordAsSpecified(k)

\* C16: a step never takes a key out of the map; in best-station mode the
\* richness of the record under a key never gets smaller; and a step that
\* extracts a row for a date whose record is at least as rich leaves the
\* whole map as it is.
C16_MapOnlyGrows ==
    [][ /\ DOMAIN climate_data_map \subseteq DOMAIN climate_data_map'
        /\ BestStationMode =>
              \A k \in DOMAIN climate_data_map :
                  Richness(climate_data_map'[k].values)
                     >= Richness(climate_data_map[k].values)
        /\ (BestStationMode /\ extracted' # extracted) =>
              LET new == extracted'[Len(extracted')]
              IN  (/\ new.key \in DOMAIN climate_data_map
                   /\ Richness(new.row) <= Richness(climate_data_map[new.key].values))
                      => climate_data_map' = climate_data_map
      ]_vars

\* In best-station mode a poorer row was extracted for a date after a
\* richer one, the richer one is still the record of the date, and the map
\* has taken the record of a second date since.
C16_Witness ==
    /\ BestStationMode
    /\ \E i, j, h \in 1..Len(extracted) :
          /\ i < j /\ j < h
          /\ extracted[i].key = extracted[j].key
          /\ extracted[h].key # extracted[i].key
          /\ Richness(extracted[j].row) < Richness(extracted[i].row)
          /\ climate_data_map[extracted[i].key].values = extracted[i].row
          /\ climate_data_map[extracted[h].key].values = extracted[h].row
====
